---------------------------- MODULE Spec2Model ----------------------------
(***************************************************************************)
(* Model of web_sentiment_dashboard.py: the cached loader that annotates   *)
(* every review with a sentiment label and score, and the dashboard        *)
(* sections that aggregate the annotated frame.                            *)
(*                                                                         *)
(* Strings are sequences of one-character strings.  A CSV cell is a record *)
(* [nan, s]: nan is TRUE for an absent cell (pandas NaN).  A float is a    *)
(* record [nan, v] holding the value in hundredths (4.1 is v = 410), so    *)
(* that rating / 5.0 is exact for ratings with one decimal.                *)
(***************************************************************************)
EXTENDS Integers, Sequences, FiniteSets, TLC

VARIABLES
    csv,                \* rows of amazon.csv: [rating, review_content, category]
    cache,              \* st.cache_data entry of load_and_process_data
    df,                 \* the frame being built, then the script's df
    acc,                \* results of the running df.apply(..., axis=1)
    pc,                 \* position in the script
    error,              \* the exception that stopped the script run, "" if none
    metrics,            \* Key Metrics Row
    sentiment_counts,   \* df['sentiment'].value_counts()
    sentiment_rating,   \* pd.crosstab(rating_numeric, sentiment)
    top_categories,     \* index of value_counts().head(5)
    cat_sentiment_pct,  \* crosstab(..., normalize='index') * 100
    score_mean,         \* df['sentiment_score'].mean() of the histogram
    sentiment_length,   \* groupby('sentiment')['review_length'].mean()
    summary             \* Detailed Summary

vars == << csv, cache, df, acc, pc, error, metrics, sentiment_counts,
           sentiment_rating, top_categories, cat_sentiment_pct, score_mean,
           sentiment_length, summary >>

views == << metrics, sentiment_counts, sentiment_rating, top_categories,
            cat_sentiment_pct, score_mean, sentiment_length, summary >>

(***************************************************************************)
(* Bounds of the model.                                                    *)
(***************************************************************************)
MaxRecords == 3     \* rows of a frame drawn from SmallReviews
MaxFrags == 2       \* fragments concatenated into one review text
MaxCatRows == 7     \* rows of a frame drawn for the category breakdown

(***************************************************************************)
(* Characters.                                                             *)
(***************************************************************************)
Uppercase ==
    <<"A", "B", "C", "D", "E", "F", "G", "H", "I", "J", "K", "L", "M",
      "N", "O", "P", "Q", "R", "S", "T", "U", "V", "W", "X", "Y", "Z">>

Lowercase ==
    <<"a", "b", "c", "d", "e", "f", "g", "h", "i", "j", "k", "l", "m",
      "n", "o", "p", "q", "r", "s", "t", "u", "v", "w", "x", "y", "z">>

Digits == <<"0", "1", "2", "3", "4", "5", "6", "7", "8", "9">>

IndexOf(seq, c) == CHOOSE k \in 1..Len(seq) : seq[k] = c

IsIn(seq, c) == \E k \in 1..Len(seq) : seq[k] = c

IndexOfFirstBar(s) == CHOOSE k \in 1..Len(s) : s[k] = "|" /\ \A j \in 1..(k - 1) : s[j] # "|"

(***************************************************************************)
(* Cells and floats.                                                       *)
(***************************************************************************)
Cell(s) == [nan |-> FALSE, s |-> s]

MissingCell == [nan |-> TRUE, s |-> <<>>]

NaN == [nan |-> TRUE, v |-> 0]

Float(whole, tenths) == [nan |-> FALSE, v |-> whole * 100 + tenths * 10]

Hundredths(x) == [nan |-> FALSE, v |-> x]

\* Every comparison with NaN is False.
FGe(a, b) == ~a.nan /\ ~b.nan /\ a.v >= b.v

FLe(a, b) == ~a.nan /\ ~b.nan /\ a.v <= b.v

\* Arithmetic propagates NaN.
FSub(a, b) == IF a.nan \/ b.nan THEN NaN ELSE Hundredths(a.v - b.v)

FMul(a, b) == IF a.nan \/ b.nan THEN NaN ELSE Hundredths((a.v * b.v) \div 100)

\* b is never 0.0 where the code divides floats (the divisor is 5.0).
FDiv(a, b) == IF a.nan \/ b.nan THEN NaN ELSE Hundredths((a.v * 100) \div b.v)

(***************************************************************************)
(* pd.to_numeric(df['rating'], errors='coerce') on one cell: a digit, or a *)
(* digit, a point and a digit, is the number; an absent cell and any other *)
(* text of RawRatings is coerced to NaN.                                   *)
(***************************************************************************)
DigitVal(c) == IndexOf(Digits, c) - 1

to_numeric(cell) ==
    IF cell.nan THEN NaN
    ELSE IF Len(cell.s) = 1 /\ IsIn(Digits, cell.s[1])
         THEN Float(DigitVal(cell.s[1]), 0)
    ELSE IF /\ Len(cell.s) = 3
            /\ IsIn(Digits, cell.s[1])
            /\ cell.s[2] = "."
            /\ IsIn(Digits, cell.s[3])
         THEN Float(DigitVal(cell.s[1]), DigitVal(cell.s[3]))
    ELSE NaN

\* df['review_content'].str.len(): NaN for an absent cell.
str_len(cell) == IF cell.nan THEN NaN ELSE Float(Len(cell.s), 0)

(***************************************************************************)
(* analyze_sentiment and sentiment_score.                                  *)
(***************************************************************************)
positive_words ==
    << <<"g", "o", "o", "d">>,
       <<"g", "r", "e", "a", "t">>,
       <<"e", "x", "c", "e", "l", "l", "e", "n", "t">>,
       <<"a", "m", "a", "z", "i", "n", "g">>,
       <<"l", "o", "v", "e">>,
       <<"p", "e", "r", "f", "e", "c", "t">>,
       <<"b", "e", "s", "t">>,
       <<"a", "w", "e", "s", "o", "m", "e">>,
       <<"s", "a", "t", "i", "s", "f", "i", "e", "d">>,
       <<"r", "e", "c", "o", "m", "m", "e", "n", "d">> >>

negative_words ==
    << <<"b", "a", "d">>,
       <<"t", "e", "r", "r", "i", "b", "l", "e">>,
       <<"a", "w", "f", "u", "l">>,
       <<"h", "a", "t", "e">>,
       <<"w", "o", "r", "s", "t">>,
       <<"p", "o", "o", "r">>,
       <<"d", "i", "s", "a", "p", "p", "o", "i", "n", "t", "e", "d">>,
       <<"u", "s", "e", "l", "e", "s", "s">>,
       <<"d", "e", "f", "e", "c", "t", "i", "v", "e">>,
       <<"b", "r", "o", "k", "e", "n">> >>

\* str(x): the text of an absent cell (float NaN) is "nan".
str(cell) == IF cell.nan THEN <<"n", "a", "n">> ELSE cell.s

lower_char(c) == IF IsIn(Uppercase, c) THEN Lowercase[IndexOf(Uppercase, c)] ELSE c

\* Variant: the content is matched as written, without .lower().
lower_identity(s) == s

lower(s) == [k \in 1..Len(s) |-> lower_char(s[k])]

\* word in content
Contains(word, content) ==
    \E off \in 0..(Len(content) - Len(word)) :
        \A k \in 1..Len(word) : content[off + k] = word[k]

\* sum(1 for word in words if word in content)
RECURSIVE CountIn(_, _)
CountIn(words, content) ==
    IF words = <<>> THEN 0
    ELSE (IF Contains(Head(words), content) THEN 1 ELSE 0)
         + CountIn(Tail(words), content)

content_of(row) == lower(str(row.review_content))

pos_count(row) == CountIn(positive_words, content_of(row))

neg_count(row) == CountIn(negative_words, content_of(row))

\* Variant: an unparseable rating counts as 0 instead of comparing False.
analyze_sentiment_nan_as_zero(row) ==
    LET rating == row.rating_numeric
        pos == pos_count(row)
        neg == neg_count(row)
    IN  IF FGe(rating, Float(4, 0)) /\ pos > neg THEN "Positive"
        ELSE IF rating.nan \/ FLe(rating, Float(2, 0)) \/ neg > pos THEN "Negative"
        ELSE "Neutral"

\* Variant: a fourth label for a high rating with a negative text.
analyze_sentiment_mixed(row) ==
    LET rating == row.rating_numeric
        pos == pos_count(row)
        neg == neg_count(row)
    IN  IF FGe(rating, Float(4, 0)) /\ neg > pos THEN "Mixed"
        ELSE IF FGe(rating, Float(4, 0)) /\ pos > neg THEN "Positive"
        ELSE IF FLe(rating, Float(2, 0)) \/ neg > pos THEN "Negative"
        ELSE "Neutral"

analyze_sentiment(row) ==
    LET rating == row.rating_numeric
        pos == pos_count(row)
        neg == neg_count(row)
    IN  IF FGe(rating, Float(4, 0)) /\ pos > neg THEN "Positive"
        ELSE IF FLe(rating, Float(2, 0)) \/ neg > pos THEN "Negative"
        ELSE "Neutral"

\* Variant: the Negative score without its "* -1".
sentiment_score_unsigned(row) ==
    IF row.sentiment = "Positive"
    THEN FDiv(row.rating_numeric, Float(5, 0))
    ELSE IF row.sentiment = "Negative"
    THEN FDiv(FSub(Float(5, 0), row.rating_numeric), Float(5, 0))
    ELSE Float(0, 0)

\* Variant: the Positive score without its "/ 5.0".
sentiment_score_unscaled(row) ==
    IF row.sentiment = "Positive"
    THEN row.rating_numeric
    ELSE IF row.sentiment = "Negative"
    THEN FMul(FDiv(FSub(Float(5, 0), row.rating_numeric), Float(5, 0)),
              Hundredths(-100))
    ELSE Float(0, 0)

sentiment_score(row) ==
    IF row.sentiment = "Positive"
    THEN FDiv(row.rating_numeric, Float(5, 0))
    ELSE IF row.sentiment = "Negative"
    THEN FMul(FDiv(FSub(Float(5, 0), row.rating_numeric), Float(5, 0)),
              Hundredths(-100))
    ELSE Float(0, 0)

(***************************************************************************)
(* pandas helpers used by the dashboard sections.                          *)
(***************************************************************************)
Labels == {"Positive", "Neutral", "Negative"}

Range(seq) == {seq[k] : k \in 1..Len(seq)}

Rows(d) == 1..Len(d)

Min(a, b) == IF a <= b THEN a ELSE b

\* Series.get(key, default)
Get(f, key, default) == IF key \in DOMAIN f THEN f[key] ELSE default

RECURSIVE SumOver(_, _)
SumOver(S, f) ==
    IF S = {} THEN 0
    ELSE LET k == CHOOSE x \in S : TRUE IN f[k].v + SumOver(S \ {k}, f)

\* Series.mean() over the rows of S: NaN values are skipped, and the mean of
\* no value is NaN.  The mean is kept as the fraction sum / n.
Mean(S, f) ==
    LET valid == {k \in S : ~f[k].nan}
    IN  [nan |-> valid = {}, sum |-> SumOver(valid, f), n |-> Cardinality(valid)]

MeanLess(a, b) == a.sum * b.n < b.sum * a.n

\* Series.value_counts(): the values that occur, each with its count.
value_counts(col) ==
    [x \in Range(col) |-> Cardinality({k \in 1..Len(col) : col[k] = x})]

\* .str.split('|').str[0]
split_first(s) ==
    IF IsIn(s, "|") THEN SubSeq(s, 1, IndexOfFirstBar(s) - 1) ELSE s

top_level(d) == [k \in Rows(d) |-> split_first(d[k].category)]

column(d, name) == [k \in Rows(d) |-> d[k][name]]

\* Variant: value_counts(ascending=True), the least frequent values first.
head_index_ascending(counts, n) ==
    {S \in SUBSET DOMAIN counts :
        /\ Cardinality(S) = Min(n, Cardinality(DOMAIN counts))
        /\ \A c \in S : \A x \in DOMAIN counts \ S : counts[c] <= counts[x]}

\* value_counts().head(n).index: value_counts sorts by count, descending; the
\* order among equal counts is that of an unstable sort, so any n values none
\* of which has fewer occurrences than a value left out may come first.
head_index(counts, n) ==
    {S \in SUBSET DOMAIN counts :
        /\ Cardinality(S) = Min(n, Cardinality(DOMAIN counts))
        /\ \A c \in S : \A x \in DOMAIN counts \ S : counts[c] >= counts[x]}

\* pd.crosstab(rows, cols): rows and columns are the values that occur.
crosstab(rowkey, colkey) ==
    [r \in Range(rowkey) |->
        [c \in Range(colkey) |->
            Cardinality({k \in 1..Len(rowkey) : rowkey[k] = r /\ colkey[k] = c})]]

\* crosstab(..., normalize='index') * 100, each cell kept as num / den.
crosstab_pct(rowkey, colkey) ==
    [r \in Range(rowkey) |->
        [c \in Range(colkey) |->
            [num |-> 100 * Cardinality({k \in 1..Len(rowkey) :
                                           rowkey[k] = r /\ colkey[k] = c}),
             den |-> Cardinality({k \in 1..Len(rowkey) : rowkey[k] = r})]]]

\* The order of characters (their code points, for the characters in use).
CodeOrder == <<" ", ".">> \o Digits \o Uppercase \o Lowercase \o <<"|">>

RECURSIVE StrLess(_, _)
StrLess(a, b) ==
    IF b = <<>> THEN FALSE
    ELSE IF a = <<>> THEN TRUE
    ELSE IF Head(a) = Head(b) THEN StrLess(Tail(a), Tail(b))
    ELSE IndexOf(CodeOrder, Head(a)) < IndexOf(CodeOrder, Head(b))

\* groupby(key)[value].mean(): one mean per key that occurs.
groupby_mean(key, value) ==
    [g \in Range(key) |-> Mean({k \in 1..Len(key) : key[k] = g}, value)]

\* Series.idxmax() / idxmin() over the groups whose mean is not NaN: the first
\* extremal group in the sorted order of the keys.
idxmax(avg) ==
    CHOOSE g \in DOMAIN avg :
        /\ ~avg[g].nan
        /\ \A h \in DOMAIN avg \ {g} :
              avg[h].nan \/ MeanLess(avg[h], avg[g])
                         \/ (~MeanLess(avg[g], avg[h]) /\ StrLess(g, h))

idxmin(avg) ==
    CHOOSE g \in DOMAIN avg :
        /\ ~avg[g].nan
        /\ \A h \in DOMAIN avg \ {g} :
              avg[h].nan \/ MeanLess(avg[g], avg[h])
                         \/ (~MeanLess(avg[h], avg[g]) /\ StrLess(g, h))

(***************************************************************************)
(* The inputs: the rows of the CSV file.                                   *)
(***************************************************************************)
Review(rating, review_content, category) ==
    [rating |-> rating, review_content |-> review_content, category |-> category]

RECURSIVE SeqsUpTo(_, _)
SeqsUpTo(S, n) ==
    IF n = 0 THEN {<<>>}
    ELSE LET shorter == SeqsUpTo(S, n - 1)
         IN  shorter \cup {Append(q, x) : q \in shorter, x \in S}

\* Ratings as the file spells them: in the domain, outside it, unparseable.
RawRatings ==
    { Cell(<<"5">>), Cell(<<"4">>), Cell(<<"3">>), Cell(<<"2">>), Cell(<<"1">>),
      Cell(<<"4", ".", "1">>), Cell(<<"3", ".", "9">>), Cell(<<"2", ".", "0">>),
      Cell(<<"0">>), Cell(<<"6">>), Cell(<<"|">>), MissingCell }

Fragments ==
    { <<"G", "o", "o", "d">>,
      <<"G", "R", "E", "A", "T">>,
      <<"a", "w", "e", "s", "o", "m", "e", "s", "a", "u", "c", "e">>,
      <<"b", "a", "d">>,
      <<"B", "R", "O", "K", "E", "N">>,
      <<"b", "e">>,
      <<"s", "t">>,
      <<" ", "n", "o", "t", " ">> }

RECURSIVE Texts(_)
Texts(n) ==
    IF n = 0 THEN {<<>>}
    ELSE LET shorter == Texts(n - 1)
         IN  shorter \cup {t \o f : t \in shorter, f \in Fragments}

Electronics == <<"A", "|", "x">>

\* One review, its rating and its text drawn widely.
OneReviewFrames ==
    { <<Review(r, t, Electronics)>> :
        r \in RawRatings,
        t \in {Cell(x) : x \in Texts(MaxFrags)} \cup {MissingCell} }

\* A few reviews, each drawn from the combinations that decide the label.
SmallReviews ==
    { Review(r, Cell(t), Electronics) :
        r \in {Cell(<<"5">>), Cell(<<"3">>), Cell(<<"1">>), Cell(<<"|">>)},
        t \in {<<"g", "o", "o", "d">>, <<"b", "a", "d">>} }

SmallFrames == SeqsUpTo(SmallReviews, MaxRecords)

\* Frames for the category breakdown.  The k-th category to appear is the k-th
\* of CategoryNames (the code only compares categories for equality and
\* counts them), and row k carries the k-th of SampleReviews, cyclically.
CategoryNames ==
    << <<"A", "|", "x">>, <<"B">>, <<"C", "|", "y", "|", "z">>, <<"D">>,
       <<"E", "|", "x">>, <<"F">>, <<"G", "|", "y">>, <<"H">> >>

SampleReviews ==
    << <<Cell(<<"5">>), Cell(<<"g", "o", "o", "d">>)>>,
       <<Cell(<<"1">>), Cell(<<"b", "a", "d">>)>>,
       <<Cell(<<"3">>), Cell(<<>>)>>,
       <<Cell(<<"|">>), Cell(<<"b", "a", "d">>)>> >>

RECURSIVE MaxOf(_)
MaxOf(q) ==
    IF q = <<>> THEN 0
    ELSE LET m == MaxOf(Tail(q)) IN IF Head(q) > m THEN Head(q) ELSE m

RECURSIVE CategoryPatterns(_)
CategoryPatterns(n) ==
    IF n = 0 THEN {<<>>}
    ELSE LET shorter == CategoryPatterns(n - 1)
         IN  shorter \cup
             UNION { { Append(q, c) :
                         c \in 1..Min(Len(CategoryNames), MaxOf(q) + 1) } :
                     q \in {x \in shorter : Len(x) = n - 1} }

CategoryFrames ==
    { [k \in 1..Len(q) |->
         LET sample == SampleReviews[((k - 1) % Len(SampleReviews)) + 1]
         IN  Review(sample[1], sample[2], CategoryNames[q[k]])] :
        q \in CategoryPatterns(MaxCatRows) }

(***************************************************************************)
(* The script.                                                             *)
(***************************************************************************)
NoCache == [set |-> FALSE, df |-> <<>>]

NoView == <<>>

\* The state before the first run of the script over the file `frame`.
Start(frame) ==
    /\ csv = frame
    /\ cache = NoCache
    /\ df = <<>>
    /\ acc = <<>>
    /\ pc = "load"
    /\ error = ""
    /\ metrics = NoView
    /\ sentiment_counts = NoView
    /\ sentiment_rating = NoView
    /\ top_categories = {}
    /\ cat_sentiment_pct = NoView
    /\ score_mean = NoView
    /\ sentiment_length = NoView
    /\ summary = NoView

Init == \E frame \in SmallFrames : Start(frame)

InitClassify == \E frame \in OneReviewFrames \cup {<<>>} : Start(frame)

InitCategories == \E frame \in CategoryFrames : Start(frame)

Raise(exception) ==
    /\ pc' = "crashed"
    /\ error' = exception

\* load_and_process_data(), a cache miss: read_csv, rating_numeric, review_length.
ReadCsv ==
    /\ pc = "load"
    /\ ~cache.set
    /\ df' = [k \in Rows(csv) |->
                csv[k] @@ [rating_numeric |-> to_numeric(csv[k].rating),
                           review_length |-> str_len(csv[k].review_content)]]
    /\ acc' = <<>>
    /\ pc' = "apply_sentiment"
    /\ UNCHANGED << csv, cache, error, views >>

\* load_and_process_data(), a cache hit: st.cache_data returns the stored frame.
LoadCached ==
    /\ pc = "load"
    /\ cache.set
    /\ df' = cache.df
    /\ pc' = "metrics"
    /\ UNCHANGED << csv, cache, acc, error, views >>

\* Variant: the results are collected in reverse.
AppendResult_prepend(results, value) == <<value>> \o results

\* The result list of apply with one more row's result.
AppendResult(results, value) == Append(results, value)

\* df.apply(analyze_sentiment, axis=1), one row.
ApplySentimentRow ==
    /\ pc = "apply_sentiment"
    /\ Len(acc) < Len(df)
    /\ acc' = AppendResult(acc, analyze_sentiment(df[Len(acc) + 1]))
    /\ UNCHANGED << csv, cache, df, pc, error, views >>

\* df['sentiment'] = the results.
AssignSentiment ==
    /\ pc = "apply_sentiment"
    /\ Len(df) > 0
    /\ Len(acc) = Len(df)
    /\ df' = [k \in Rows(df) |-> df[k] @@ [sentiment |-> acc[k]]]
    /\ acc' = <<>>
    /\ pc' = "apply_score"
    /\ UNCHANGED << csv, cache, error, views >>

\* apply over a frame without rows calls the function on no row and returns an
\* empty frame, not a column; assigning it to df['sentiment'] raises
\* ValueError, or, where the release accepts it, leaves an empty column.
ApplyToEmptyFrame ==
    /\ pc \in {"apply_sentiment", "apply_score"}
    /\ Len(df) = 0
    /\ \/ Raise("ValueError") /\ UNCHANGED << cache >>
       \/ /\ pc = "apply_sentiment"
          /\ pc' = "apply_score"
          /\ UNCHANGED << cache, error >>
       \/ /\ pc = "apply_score"
          /\ pc' = "metrics"
          /\ cache' = [set |-> TRUE, df |-> df]
          /\ UNCHANGED << error >>
    /\ UNCHANGED << csv, df, acc, views >>

\* df.apply(sentiment_score, axis=1), one row.
ApplyScoreRow ==
    /\ pc = "apply_score"
    /\ Len(acc) < Len(df)
    /\ acc' = AppendResult(acc, sentiment_score(df[Len(acc) + 1]))
    /\ UNCHANGED << csv, cache, df, pc, error, views >>

\* df['sentiment_score'] = the results; return df, which st.cache_data stores.
AssignScore ==
    /\ pc = "apply_score"
    /\ Len(df) > 0
    /\ Len(acc) = Len(df)
    /\ df' = [k \in Rows(df) |-> df[k] @@ [sentiment_score |-> acc[k]]]
    /\ cache' = [set |-> TRUE, df |-> df']
    /\ acc' = <<>>
    /\ pc' = "metrics"
    /\ UNCHANGED << csv, error, views >>

(***************************************************************************)
(* The dashboard sections, in the order of the script.                     *)
(***************************************************************************)
TopN == 5

\* Key Metrics Row
KeyMetrics ==
    /\ pc = "metrics"
    /\ metrics' =
         [total |-> Len(df),
          avg_rating |-> Mean(Rows(df), column(df, "rating_numeric")),
          positive_pct |->
             [nan |-> Len(df) = 0,
              num |-> 100 * Cardinality({k \in Rows(df) : df[k].sentiment = "Positive"}),
              den |-> Len(df)],
          avg_sentiment |-> Mean(Rows(df), column(df, "sentiment_score"))]
    /\ pc' = "pie"
    /\ UNCHANGED << csv, cache, df, acc, error, sentiment_counts, sentiment_rating,
                    top_categories, cat_sentiment_pct, score_mean,
                    sentiment_length, summary >>

\* Sentiment Distribution Pie Chart
SentimentDistribution ==
    /\ pc = "pie"
    /\ sentiment_counts' = value_counts(column(df, "sentiment"))
    /\ pc' = "rating"
    /\ UNCHANGED << csv, cache, df, acc, error, metrics, sentiment_rating,
                    top_categories, cat_sentiment_pct, score_mean,
                    sentiment_length, summary >>

\* Variant: the rows without a rating are dropped from df itself.
SentimentByRatingInPlace ==
    /\ pc = "rating"
    /\ LET rated(row) == ~row.rating_numeric.nan
           kept == SelectSeq(df, rated)
       IN  /\ df' = kept
           /\ sentiment_rating' =
                crosstab([k \in Rows(kept) |-> kept[k].rating_numeric.v],
                         column(kept, "sentiment"))
    /\ pc' = "categories"
    /\ UNCHANGED << csv, cache, acc, error, metrics, sentiment_counts,
                    top_categories, cat_sentiment_pct, score_mean,
                    sentiment_length, summary >>

\* Sentiment by Rating: crosstab leaves out the rows whose rating is NaN.
SentimentByRating ==
    /\ pc = "rating"
    /\ LET rated(row) == ~row.rating_numeric.nan
           kept == SelectSeq(df, rated)
       IN  sentiment_rating' =
             crosstab([k \in Rows(kept) |-> kept[k].rating_numeric.v],
                      column(kept, "sentiment"))
    /\ pc' = "categories"
    /\ UNCHANGED << csv, cache, df, acc, error, metrics, sentiment_counts,
                    top_categories, cat_sentiment_pct, score_mean,
                    sentiment_length, summary >>

\* cat_sentiment = df[df['category'].str.split('|').str[0].isin(top_categories)]
cat_sentiment(d, top) ==
    LET kept(row) == split_first(row.category) \in top
    IN  SelectSeq(d, kept)

\* Top Categories Sentiment
TopCategoriesSentiment ==
    /\ pc = "categories"
    /\ \E top \in head_index(value_counts(top_level(df)), TopN) :
         /\ top_categories' = top
         /\ cat_sentiment_pct' =
              crosstab_pct(top_level(cat_sentiment(df, top)),
                           column(cat_sentiment(df, top), "sentiment"))
    /\ pc' = "histogram"
    /\ UNCHANGED << csv, cache, df, acc, error, metrics, sentiment_counts,
                    sentiment_rating, score_mean, sentiment_length, summary >>

\* Sentiment Score Distribution: the mean line of the histogram.
SentimentScoreDistribution ==
    /\ pc = "histogram"
    /\ score_mean' = Mean(Rows(df), column(df, "sentiment_score"))
    /\ pc' = "length"
    /\ UNCHANGED << csv, cache, df, acc, error, metrics, sentiment_counts,
                    sentiment_rating, top_categories, cat_sentiment_pct,
                    sentiment_length, summary >>

\* Review Length by Sentiment
ReviewLengthBySentiment ==
    /\ pc = "length"
    /\ sentiment_length' =
         groupby_mean(column(df, "sentiment"), column(df, "review_length"))
    /\ pc' = "summary"
    /\ UNCHANGED << csv, cache, df, acc, error, metrics, sentiment_counts,
                    sentiment_rating, top_categories, cat_sentiment_pct,
                    score_mean, summary >>

\* count / total_reviews * 100 of the Sentiment Breakdown, kept as num / den.
Percentage(count, total_reviews) == [num |-> 100 * count, den |-> total_reviews]

\* The Detailed Summary once the extremal categories are known.
WriteSummary(counts, most_positive_cat, most_negative_cat) ==
    LET total_reviews == Len(df)
    IN  IF total_reviews = 0
        THEN \* 0 / 0 of Python ints
             Raise("ZeroDivisionError") /\ UNCHANGED summary
        ELSE /\ summary' =
                  [total_reviews |-> total_reviews,
                   breakdown |->
                      [l \in Labels |->
                         [count |-> Get(counts, l, 0),
                          pct |-> Percentage(Get(counts, l, 0), total_reviews)]],
                   most_positive_cat |-> most_positive_cat,
                   most_negative_cat |-> most_negative_cat,
                   avg_length |-> Mean(Rows(df), column(df, "review_length")),
                   categories |-> Cardinality(Range(top_level(df)))]
             /\ pc' = "done"
             /\ UNCHANGED error

\* Summary Statistics.  idxmax of no group raises ValueError; idxmax of groups
\* whose means are all NaN is NaN or raises ValueError, by the pandas release.
SummaryStatistics ==
    /\ pc = "summary"
    /\ LET counts == value_counts(column(df, "sentiment"))
           cat_sentiment_avg ==
              groupby_mean(top_level(df), column(df, "sentiment_score"))
       IN  /\ sentiment_counts' = counts
           /\ IF DOMAIN cat_sentiment_avg = {}
              THEN Raise("ValueError") /\ UNCHANGED summary
              ELSE IF \A g \in DOMAIN cat_sentiment_avg : cat_sentiment_avg[g].nan
              THEN \/ Raise("ValueError") /\ UNCHANGED summary
                   \/ WriteSummary(counts, MissingCell, MissingCell)
              ELSE WriteSummary(counts, Cell(idxmax(cat_sentiment_avg)),
                                Cell(idxmin(cat_sentiment_avg)))
    /\ UNCHANGED << csv, cache, df, acc, metrics, sentiment_rating,
                    top_categories, cat_sentiment_pct, score_mean,
                    sentiment_length >>

\* Streamlit runs the script again, from the top, on every interaction; the
\* cache of load_and_process_data outlives the run.
Rerun ==
    /\ pc \in {"done", "crashed"}
    /\ pc' = "load"
    /\ df' = <<>>
    /\ acc' = <<>>
    /\ error' = ""
    /\ metrics' = NoView
    /\ sentiment_counts' = NoView
    /\ sentiment_rating' = NoView
    /\ top_categories' = {}
    /\ cat_sentiment_pct' = NoView
    /\ score_mean' = NoView
    /\ sentiment_length' = NoView
    /\ summary' = NoView
    /\ UNCHANGED << csv, cache >>

Next ==
    \/ ReadCsv
    \/ LoadCached
    \/ ApplySentimentRow
    \/ AssignSentiment
    \/ ApplyToEmptyFrame
    \/ ApplyScoreRow
    \/ AssignScore
    \/ KeyMetrics
    \/ SentimentDistribution
    \/ SentimentByRating
    \/ TopCategoriesSentiment
    \/ SentimentScoreDistribution
    \/ ReviewLengthBySentiment
    \/ SummaryStatistics
    \/ Rerun

\* The dashboard over a few reviews.
Spec == Init /\ [][Next]_vars

\* The dashboard over frames with many categories.
SpecCategories == InitCategories /\ [][Next]_vars

\* load_and_process_data alone, over one review drawn widely.
NextLoad ==
    \/ ReadCsv
    \/ ApplySentimentRow
    \/ AssignSentiment
    \/ ApplyToEmptyFrame
    \/ ApplyScoreRow
    \/ AssignScore

SpecClassify == InitClassify /\ [][NextLoad]_vars

(***************************************************************************)
(* Properties.                                                             *)
(***************************************************************************)
Labelled(k) == "sentiment" \in DOMAIN df[k]

Scored(k) == "sentiment_score" \in DOMAIN df[k]

AggregationStages ==
    {"metrics", "pie", "rating", "categories", "histogram", "length", "summary"}

Annotated == pc \in AggregationStages \cup {"done"}

LabelCount(l) == Cardinality({k \in Rows(df) : df[k].sentiment = l})

\* C1: the label of every row is decided by the first matching rule: Positive
\* if rating >= 4 and pos_count > neg_count, otherwise Negative if rating <= 2
\* or neg_count > pos_count, otherwise Neutral, every comparison with a missing
\* rating being false; so a row with a missing rating is never Positive and is
\* Negative exactly when neg_count > pos_count.
C1_LabelRule ==
    \A k \in Rows(df) :
        Labelled(k) =>
            LET r == df[k].rating_numeric
                pos == pos_count(df[k])
                neg == neg_count(df[k])
                first == ~r.nan /\ r.v >= 400 /\ pos > neg
                second == (~r.nan /\ r.v <= 200) \/ neg > pos
                label == df[k].sentiment
            IN  /\ (label = "Positive") <=> first
                /\ (label = "Negative") <=> (~first /\ second)
                /\ (label = "Neutral") <=> (~first /\ ~second)
                /\ r.nan => /\ label # "Positive"
                            /\ (label = "Negative") <=> (neg > pos)

C1_Witness ==
    \E k \in Rows(df) :
        /\ Labelled(k)
        /\ df[k].rating_numeric.nan
        /\ df[k].sentiment = "Negative"
        /\ neg_count(df[k]) > pos_count(df[k])

\* C2 as stated, for the ratings of the declared domain [1, 5] alone: for every
\* scored row whose rating is present, Positive implies score > 0, Negative
\* implies score < 0 with the score in [-1, 0), and Neutral implies score = 0.
C2_SignMatchesLabel ==
    \A k \in Rows(df) :
        (/\ Scored(k)
         /\ ~df[k].rating_numeric.nan
         /\ df[k].rating_numeric.v >= 100
         /\ df[k].rating_numeric.v <= 500) =>
            LET score == df[k].sentiment_score
                label == df[k].sentiment
            IN  /\ ~score.nan
                /\ label = "Positive" => score.v > 0
                /\ label = "Negative" => (score.v < 0 /\ score.v >= -100)
                /\ label = "Neutral" => score.v = 0

\* C2 amended: for every scored row whose rating is present, Positive implies
\* score > 0, Neutral implies score = 0, and Negative implies
\* score = -(5 - rating) / 5, which is below 0 when rating < 5, equal to 0 when
\* rating = 5 and above 0 when rating > 5.
C2_SignOfScore ==
    \A k \in Rows(df) :
        (Scored(k) /\ ~df[k].rating_numeric.nan) =>
            LET score == df[k].sentiment_score
                label == df[k].sentiment
                r == df[k].rating_numeric
            IN  /\ ~score.nan
                /\ label = "Positive" => score.v > 0
                /\ label = "Neutral" => score.v = 0
                /\ label = "Negative" =>
                      /\ 5 * score.v = r.v - 500
                      /\ r.v < 500 => score.v < 0
                      /\ r.v = 500 => score.v = 0
                      /\ r.v > 500 => score.v > 0

C2_Witness ==
    \E k \in Rows(df) :
        /\ Scored(k)
        /\ df[k].rating_numeric = Float(5, 0)
        /\ df[k].sentiment = "Negative"
        /\ df[k].sentiment_score.v = 0

\* C3: every scored row whose rating is missing has the score 0.0, whatever
\* its label; the score is never an undefined value.
C3_MissingRatingScoreZero ==
    \A k \in Rows(df) :
        (Scored(k) /\ df[k].rating_numeric.nan) =>
            df[k].sentiment_score = Float(0, 0)

\* C4: every scored row whose rating lies in [1, 5] has a score in [-1, 1].
C4_ScoreInRange ==
    \A k \in Rows(df) :
        (/\ Scored(k)
         /\ ~df[k].rating_numeric.nan
         /\ df[k].rating_numeric.v >= 100
         /\ df[k].rating_numeric.v <= 500) =>
            /\ ~df[k].sentiment_score.nan
            /\ df[k].sentiment_score.v >= -100
            /\ df[k].sentiment_score.v <= 100

C4_Witness ==
    \E k \in Rows(df) :
        /\ Scored(k)
        /\ df[k].rating_numeric = Float(5, 0)
        /\ df[k].sentiment = "Positive"
        /\ df[k].sentiment_score.v = 100

\* C5: the annotated frame has the length and the order of the input: its
\* k-th row carries the rating and the text of the k-th input row, with the
\* label and the score classified from that row alone.
C5_SameLengthAndOrder ==
    Annotated =>
        /\ Len(df) = Len(csv)
        /\ \A k \in Rows(df) :
              LET numeric == [rating_numeric |-> to_numeric(csv[k].rating),
                              review_content |-> csv[k].review_content]
                  label == analyze_sentiment(numeric)
              IN  /\ df[k].rating = csv[k].rating
                  /\ df[k].review_content = csv[k].review_content
                  /\ df[k].category = csv[k].category
                  /\ df[k].sentiment = label
                  /\ df[k].sentiment_score =
                        sentiment_score(numeric @@ [sentiment |-> label])

C5_Witness ==
    /\ Annotated
    /\ Len(df) >= 2
    /\ csv[1] # csv[2]
    /\ df[1].sentiment # df[2].sentiment
    /\ df[1].sentiment_score # df[2].sentiment_score

\* C6: every row carries exactly one label of Positive, Neutral, Negative, and
\* the three counts of the label distribution sum to the number of input rows.
C6_CountsSumToLength ==
    /\ \A k \in Rows(df) : Labelled(k) => df[k].sentiment \in Labels
    /\ pc \in {"rating", "categories", "histogram", "length", "summary", "done"} =>
          Get(sentiment_counts, "Positive", 0)
          + Get(sentiment_counts, "Neutral", 0)
          + Get(sentiment_counts, "Negative", 0) = Len(csv)
    /\ pc = "done" =>
          /\ summary.total_reviews = Len(csv)
          /\ summary.breakdown["Positive"].count
             + summary.breakdown["Neutral"].count
             + summary.breakdown["Negative"].count = Len(csv)

C6_Witness ==
    /\ pc = "done"
    /\ Len(csv) >= 2
    /\ summary.breakdown["Positive"].count > 0
    /\ summary.breakdown["Negative"].count > 0

\* C7: for an input without rows the script run ends with a label distribution
\* of three zero counts and a "no data" result for the percentages, and no
\* error is raised.
NoData == [nodata |-> TRUE]

C7_EmptyInputNoData ==
    (csv = <<>> /\ pc \in {"done", "crashed"}) =>
        /\ pc = "done"
        /\ error = ""
        /\ \A l \in Labels :
              /\ summary.breakdown[l].count = 0
              /\ summary.breakdown[l].pct = NoData

\* The top-level categories of a column of first segments, their counts and
\* first rows.
Occurrences(col, c) == Cardinality({k \in 1..Len(col) : col[k] = c})

FirstSeen(col, c) ==
    CHOOSE k \in 1..Len(col) : col[k] = c /\ \A j \in 1..(k - 1) : col[j] # c

\* The n most frequent categories, equal counts in first-seen order.
StableTop(col, n) ==
    LET count == [c \in Range(col) |-> Occurrences(col, c)]
        first == [c \in Range(col) |-> FirstSeen(col, c)]
        before(c, d) ==
            \/ count[c] > count[d]
            \/ count[c] = count[d] /\ first[c] < first[d]
    IN  {c \in Range(col) : Cardinality({d \in Range(col) : before(d, c)}) < n}

FirstSegments == [k \in Rows(df) |-> split_first(df[k].category)]

CategoriesRan == pc \in {"histogram", "length", "summary", "done"}

SameLetter(c, l) ==
    c = l \/ \E i \in 1..Len(Uppercase) : Uppercase[i] = c /\ Lowercase[i] = l

OccursAt(word, text, off) ==
    /\ off + Len(word) <= Len(text)
    /\ \A j \in 1..Len(word) : SameLetter(text[off + j], word[j])

Occurring(words, cell) ==
    IF cell.nan THEN {}
    ELSE {w \in Range(words) : \E off \in 0..Len(cell.s) : OccursAt(w, cell.s, off)}

C9_DistinctWordsCounted ==
    \A k \in Rows(df) :
        /\ pos_count(df[k]) = Cardinality(Occurring(positive_words, df[k].review_content))
        /\ neg_count(df[k]) = Cardinality(Occurring(negative_words, df[k].review_content))

C9_Witness ==
    \E k \in Rows(df) :
        /\ Labelled(k)
        /\ pos_count(df[k]) = 1
        /\ \E w \in Range(positive_words) :
              \E a, b \in 0..Len(df[k].review_content.s) :
                  /\ a < b
                  /\ OccursAt(w, df[k].review_content.s, a)
                  /\ OccursAt(w, df[k].review_content.s, b)
                  /\ df[k].review_content.s[a + 1] # w[1]

\* C10: every aggregation runs on a frame whose rows are all annotated, which
\* is the frame the loader stored; no aggregation changes a row, the stored
\* frame never changes once it is stored (a later run of the script reads it
\* instead of annotating again), a label or score once given to a row is not
\* given again, and the counts of the summary are those of the stored labels.
C10_AnnotatedOnceThenReadOnly ==
    /\ [](pc \in AggregationStages =>
             /\ cache.set /\ df = cache.df /\ Len(df) = Len(csv)
             /\ \A k \in Rows(df) : Labelled(k) /\ Scored(k))
    /\ [](cache.set => pc \notin {"apply_sentiment", "apply_score"})
    /\ [](pc = "done" =>
             \A l \in Labels : summary.breakdown[l].count = LabelCount(l))
    /\ [][(pc \in AggregationStages) => (df' = df)]_vars
    /\ [][cache.set => cache' = cache]_vars
    /\ [][\A k \in Rows(df) :
             /\ (Labelled(k) /\ k \in Rows(df')) =>
                   df'[k].sentiment = df[k].sentiment
             /\ (Scored(k) /\ k \in Rows(df')) =>
                   df'[k].sentiment_score = df[k].sentiment_score]_vars

C10_Witness ==
    /\ pc = "done"
    /\ cache.set
    /\ df = cache.df
    /\ Len(df) >= 2
    /\ summary.total_reviews = Len(df)
    /\ \E k \in Rows(df) : df[k].rating_numeric.nan

=============================================================================
